---- MODULE Spec2Model ----
(***************************************************************************)
(* Model of Python/CSVNoNinja.py: main() reads a CSV inventory export,     *)
(* removes every host that runs "NinjaRMMAgent", keeps one row per host    *)
(* and writes the result through the Windows open/save dialogs.            *)
(*                                                                         *)
(* A data frame is a record [columns, rows]; a row is a function from the  *)
(* column names to cell values.  Cells are strings; the missing value of   *)
(* pandas is the cell NaN.                                                 *)
(***************************************************************************)
EXTENDS Integers, Sequences, FiniteSets, TLC

VARIABLES
    pc,                 \* position of main()
    pandas_found,       \* importlib.util.find_spec("pandas") is not None
    file,               \* the file the user can select: [decodable, columns, rows]
    input_csv,          \* result of windows_file_dialog_open
    df,                 \* pd.read_csv(...)
    ninja_mask,         \* df['Name'].str.contains(...)
    hosts_with_ninja,   \* the ExclusionSet, as a data frame
    merged,             \* df.merge(..., indicator=True)
    df_no_ninja,        \* the left_only rows
    df_no_ninja_unique, \* the output table
    current_user,       \* getpass.getuser()
    save_choice,        \* what windows_file_dialog_save returned
    save_csv,           \* the path handed to to_csv
    disk,               \* destination paths -> file content
    stdout,             \* messages printed
    stderr,             \* traceback of an uncaught exception
    exit_status,        \* process exit status, meaningful when pc = "exited"
    calls,              \* the collaborators called so far, in order
    failure             \* the error that ended the run, "None" if none

vars == <<pc, pandas_found, file, input_csv, df, ninja_mask, hosts_with_ninja,
          merged, df_no_ninja, df_no_ninja_unique, current_user, save_choice,
          save_csv, disk, stdout, stderr, exit_status, calls, failure>>

-----------------------------------------------------------------------------
(* Bounds and value domains *)

MaxRows == 3

None == "None"
NaN == "NaN"
Marker == "NinjaRMMAgent"

RequiredColumns == {"Name", "IP", "HostName"}

\* raw CSV fields; the empty field is how a CSV spells a missing value
RawNames == {"", "chrome.exe", "NinjaRMMAgent.exe"}
RawIPs == {"10.0.0.1", "10.0.0.2"}
RawHostNames == {"", "A"}

RawDomain(c) ==
    CASE c = "Name" -> RawNames
      [] c = "IP" -> RawIPs
      [] c = "HostName" -> RawHostNames

RawRowsOver(C) ==
    {r \in [C -> RawNames \cup RawIPs \cup RawHostNames] :
        \A c \in C : r[c] \in RawDomain(c)}

BoundedSeq(S, n) == UNION {[1..k -> S] : k \in 0..n}

Users == {"kmayeux"}
ChosenInputs == {"C:/in.csv"}
ChosenOutputs == {"C:/out.csv"}

\* files the user may point the open dialog at
Files ==
    {[decodable |-> FALSE, columns |-> {}, rows |-> <<>>]}
    \cup {[decodable |-> TRUE, columns |-> RequiredColumns, rows |-> rs] :
            rs \in BoundedSeq(RawRowsOver(RequiredColumns), MaxRows)}
    \cup UNION {{[decodable |-> TRUE, columns |-> RequiredColumns \ {c}, rows |-> rs] :
                    rs \in BoundedSeq(RawRowsOver(RequiredColumns \ {c}), 1)} :
                 c \in RequiredColumns}

NoFrame == [columns |-> {}, rows |-> <<>>]
Absent == [exists |-> FALSE, columns |-> {}, rows |-> <<>>]

-----------------------------------------------------------------------------
(* pandas operations used by main() *)

\* read_csv: default na_values turn an empty field into NaN
parse_field(s) == IF s = "" THEN NaN ELSE s

read_csv(f) ==
    [columns |-> f.columns,
     rows |-> [i \in 1..Len(f.rows) |->
                 [c \in f.columns |-> parse_field(f.rows[i][c])]]]

\* to_csv: na_rep = '' writes NaN as an empty field
format_field(v) == IF v = NaN THEN "" ELSE v

format_row(row) == [c \in DOMAIN row |-> format_field(row[c])]

\* dtype of a column after read_csv: object when it holds a string or has no
\* row, float64 when every cell is NaN
dtype(frame, c) ==
    IF Len(frame.rows) = 0 \/ \E i \in 1..Len(frame.rows) : frame.rows[i][c] # NaN
    THEN "object" ELSE "float64"

\* substring search of str.contains for a pattern without regex metacharacters
contains(s, pat) ==
    \E i \in 1..(Len(s) - Len(pat) + 1) : SubSeq(s, i, i + Len(pat) - 1) = pat

\* str.contains with na=True: a missing Name counts as a match
str_contains_na_true(v, pat, na) == IF v = NaN THEN TRUE ELSE contains(v, pat)

str_contains(v, pat, na) == IF v = NaN THEN na ELSE contains(v, pat)

NinjaMask(frame) ==
    [i \in 1..Len(frame.rows) |-> str_contains(frame.rows[i]["Name"], Marker, FALSE)]

key(row, subset) == [c \in subset |-> row[c]]

RECURSIVE drop_dup_rec(_, _, _)
drop_dup_rec(rows, subset, seen) ==
    IF rows = <<>> THEN <<>>
    ELSE IF key(Head(rows), subset) \in seen
         THEN drop_dup_rec(Tail(rows), subset, seen)
         ELSE <<Head(rows)>>
              \o drop_dup_rec(Tail(rows), subset, seen \cup {key(Head(rows), subset)})

RECURSIVE drop_dup_last_rec(_, _)
drop_dup_last_rec(rows, subset) ==
    IF rows = <<>> THEN <<>>
    ELSE (IF \E i \in 1..Len(Tail(rows)) : key(Tail(rows)[i], subset) = key(Head(rows), subset)
          THEN <<>> ELSE <<Head(rows)>>)
         \o drop_dup_last_rec(Tail(rows), subset)

\* drop_duplicates(subset, keep='last')
drop_duplicates_keep_last(frame, subset) ==
    [columns |-> frame.columns, rows |-> drop_dup_last_rec(frame.rows, subset)]

\* drop_duplicates() without subset: whole rows are compared
drop_duplicates_all_columns(frame, subset) ==
    [columns |-> frame.columns, rows |-> drop_dup_rec(frame.rows, frame.columns, {})]

\* DataFrame.drop_duplicates(subset), keep='first'; NaN cells compare equal
drop_duplicates(frame, subset) ==
    [columns |-> frame.columns, rows |-> drop_dup_rec(frame.rows, subset, {})]

RECURSIVE loc_rec(_, _, _, _)
loc_rec(rows, mask, cols, i) ==
    IF i > Len(rows) THEN <<>>
    ELSE (IF mask[i] THEN <<key(rows[i], cols)>> ELSE <<>>)
         \o loc_rec(rows, mask, cols, i + 1)

\* df.loc[mask, cols]
loc(frame, mask, cols) ==
    [columns |-> cols, rows |-> loc_rec(frame.rows, mask, cols, 1)]

\* hosts_with_ninja without drop_duplicates
HostsWithNinja_NoDedup(frame, mask) == loc(frame, mask, {"IP", "HostName"})

HostsWithNinja(frame, mask) ==
    drop_duplicates(loc(frame, mask, {"IP", "HostName"}), {"IP", "HostName"})

with_indicator(row, ind) ==
    [c \in DOMAIN row \cup {"_merge"} |-> IF c = "_merge" THEN ind ELSE row[c]]

RECURSIVE matches(_, _, _)
matches(lrow, rrows, on) ==
    IF rrows = <<>> THEN <<>>
    ELSE (IF key(Head(rrows), on) = key(lrow, on)
          THEN <<with_indicator(lrow, "both")>> ELSE <<>>)
         \o matches(lrow, Tail(rrows), on)

RECURSIVE merge_rec(_, _, _)
merge_rec(lrows, rrows, on) ==
    IF lrows = <<>> THEN <<>>
    ELSE (IF matches(Head(lrows), rrows, on) = <<>>
          THEN <<with_indicator(Head(lrows), "left_only")>>
          ELSE matches(Head(lrows), rrows, on))
         \o merge_rec(Tail(lrows), rrows, on)

\* merge on the IP column alone
merge_on_ip(left, right, on) ==
    [columns |-> left.columns \cup {"_merge"},
     rows |-> merge_rec(left.rows, right.rows, {"IP"})]

\* left.merge(right, on, how='left', indicator=True) where right has only the
\* key columns: one output row per (left row, matching right row), left order
\* kept, NaN keys matching NaN keys
merge(left, right, on) ==
    [columns |-> left.columns \cup {"_merge"},
     rows |-> merge_rec(left.rows, right.rows, on)]

drop_column(row, c) == [d \in DOMAIN row \ {c} |-> row[d]]

RECURSIVE left_only_rec(_)
left_only_rec(rows) ==
    IF rows = <<>> THEN <<>>
    ELSE (IF Head(rows)["_merge"] = "left_only"
          THEN <<drop_column(Head(rows), "_merge")>> ELSE <<>>)
         \o left_only_rec(Tail(rows))

RECURSIVE drop_indicator_rec(_)
drop_indicator_rec(rows) ==
    IF rows = <<>> THEN <<>>
    ELSE <<drop_column(Head(rows), "_merge")>> \o drop_indicator_rec(Tail(rows))

\* merged.drop(columns='_merge') without the left_only selection
LeftOnly_NoFilter(frame) ==
    [columns |-> frame.columns \ {"_merge"}, rows |-> drop_indicator_rec(frame.rows)]

\* merged[merged['_merge'] == 'left_only'].drop(columns='_merge')
LeftOnly(frame) ==
    [columns |-> frame.columns \ {"_merge"}, rows |-> left_only_rec(frame.rows)]

\* os.path.join on Windows
os_path_join(a, b) == a \o "\\" \o b

default_out_folder(user) == "C:/Users/" \o user \o "/Downloads"
default_out_name == "MachinesWithoutNinja.csv"
DefaultPath(user) == os_path_join(default_out_folder(user), default_out_name)

Paths == ChosenOutputs \cup {DefaultPath(u) : u \in Users}

-----------------------------------------------------------------------------
(* The run *)

Init ==
    /\ pc = "ensure_pandas"
    /\ pandas_found \in BOOLEAN
    /\ file \in Files
    /\ input_csv = None
    /\ df = NoFrame
    /\ ninja_mask = <<>>
    /\ hosts_with_ninja = NoFrame
    /\ merged = NoFrame
    /\ df_no_ninja = NoFrame
    /\ df_no_ninja_unique = NoFrame
    /\ current_user = None
    /\ save_choice = None
    /\ save_csv = None
    /\ disk = [p \in Paths |-> Absent]
    /\ stdout = <<>>
    /\ stderr = <<>>
    /\ exit_status = 0
    /\ calls = <<>>
    /\ failure = None

\* sys.exit(code) after printing msg
sys_exit(msg, code, err) ==
    /\ stdout' = Append(stdout, msg)
    /\ exit_status' = code
    /\ failure' = err
    /\ pc' = "exited"

\* an exception no handler catches: the interpreter prints the traceback and
\* the process ends with status 1
uncaught(exc) ==
    /\ stderr' = Append(stderr, "Traceback: " \o exc)
    /\ exit_status' = 1
    /\ failure' = exc
    /\ pc' = "exited"

EnsurePandas ==
    /\ pc = "ensure_pandas"
    /\ \/ /\ pandas_found
          /\ stdout' = Append(stdout, "Module 'pandas' is already installed.")
          /\ pc' = "open_dialog"
          /\ UNCHANGED <<pandas_found, exit_status, failure>>
       \/ /\ ~pandas_found
          /\ \/ \* pip install raised CalledProcessError
                /\ sys_exit("Failed to install 'pandas'.", 1, "InstallError")
                /\ UNCHANGED pandas_found
             \/ \* pip returned 0 but the module is still not importable
                /\ sys_exit("pandas still not found after pip install. Exiting.", 1,
                            "InstallError")
                /\ UNCHANGED pandas_found
             \/ /\ pandas_found' = TRUE
                /\ stdout' = Append(stdout, "Successfully installed pandas.")
                /\ pc' = "open_dialog"
                /\ UNCHANGED <<exit_status, failure>>
    /\ UNCHANGED <<file, input_csv, df, ninja_mask, hosts_with_ninja, merged,
                   df_no_ninja, df_no_ninja_unique, current_user, save_choice,
                   save_csv, disk, stderr, calls>>

\* the open dialog without the early exit on cancellation
OpenDialog_NoExit ==
    /\ pc = "open_dialog"
    /\ calls' = Append(calls, "GetOpenFileNameW")
    /\ \E chosen \in ChosenInputs \cup {None} : input_csv' = chosen
    /\ pc' = "read_csv"
    /\ UNCHANGED <<pandas_found, file, df, ninja_mask, hosts_with_ninja, merged,
                   df_no_ninja, df_no_ninja_unique, current_user, save_choice,
                   save_csv, disk, stdout, stderr, exit_status, failure>>

\* windows_file_dialog_open: the chosen path, or None when the user cancels
OpenDialog ==
    /\ pc = "open_dialog"
    /\ calls' = Append(calls, "GetOpenFileNameW")
    /\ \E chosen \in ChosenInputs \cup {None} :
         /\ input_csv' = chosen
         /\ IF chosen = None
            THEN sys_exit("No file selected. Exiting.", 0, None)
            ELSE /\ pc' = "read_csv"
                 /\ UNCHANGED <<stdout, exit_status, failure>>
    /\ UNCHANGED <<pandas_found, file, df, ninja_mask, hosts_with_ninja, merged,
                   df_no_ninja, df_no_ninja_unique, current_user, save_choice,
                   save_csv, disk, stderr>>

\* an except clause that prints and falls through
read_failed_no_exit ==
    /\ stdout' = Append(stdout, "Error reading CSV from " \o input_csv)
    /\ pc' = "ninja_mask"
    /\ UNCHANGED <<exit_status, failure>>

\* the except clause around pd.read_csv
read_failed ==
    sys_exit("Error reading CSV from " \o input_csv, 1, "ParseError")

ReadCsv ==
    /\ pc = "read_csv"
    /\ calls' = Append(calls, "read_csv")
    /\ IF file.decodable
       THEN /\ df' = read_csv(file)
            /\ pc' = "ninja_mask"
            /\ UNCHANGED <<stdout, exit_status, failure>>
       ELSE /\ read_failed
            /\ UNCHANGED df
    /\ UNCHANGED <<pandas_found, file, input_csv, ninja_mask, hosts_with_ninja,
                   merged, df_no_ninja, df_no_ninja_unique, current_user,
                   save_choice, save_csv, disk, stderr>>

ComputeNinjaMask ==
    /\ pc = "ninja_mask"
    /\ IF "Name" \notin df.columns
       THEN /\ uncaught("KeyError: 'Name'")
            /\ UNCHANGED ninja_mask
       ELSE IF dtype(df, "Name") # "object"
       THEN /\ uncaught("AttributeError: Can only use .str accessor with string values")
            /\ UNCHANGED ninja_mask
       ELSE /\ ninja_mask' = NinjaMask(df)
            /\ pc' = "hosts_with_ninja"
            /\ UNCHANGED <<stderr, exit_status, failure>>
    /\ UNCHANGED <<pandas_found, file, input_csv, df, hosts_with_ninja, merged,
                   df_no_ninja, df_no_ninja_unique, current_user, save_choice,
                   save_csv, disk, stdout, calls>>

ComputeHostsWithNinja ==
    /\ pc = "hosts_with_ninja"
    /\ IF ~({"IP", "HostName"} \subseteq df.columns)
       THEN /\ uncaught("KeyError: not in index")
            /\ UNCHANGED hosts_with_ninja
       ELSE /\ hosts_with_ninja' = HostsWithNinja(df, ninja_mask)
            /\ pc' = "merge"
            /\ UNCHANGED <<stderr, exit_status, failure>>
    /\ UNCHANGED <<pandas_found, file, input_csv, df, ninja_mask, merged,
                   df_no_ninja, df_no_ninja_unique, current_user, save_choice,
                   save_csv, disk, stdout, calls>>

Merge ==
    /\ pc = "merge"
    /\ merged' = merge(df, hosts_with_ninja, {"IP", "HostName"})
    /\ pc' = "left_only"
    /\ UNCHANGED <<pandas_found, file, input_csv, df, ninja_mask, hosts_with_ninja,
                   df_no_ninja, df_no_ninja_unique, current_user, save_choice,
                   save_csv, disk, stdout, stderr, exit_status, calls, failure>>

SelectLeftOnly ==
    /\ pc = "left_only"
    /\ df_no_ninja' = LeftOnly(merged)
    /\ pc' = "drop_duplicates"
    /\ UNCHANGED <<pandas_found, file, input_csv, df, ninja_mask, hosts_with_ninja,
                   merged, df_no_ninja_unique, current_user, save_choice,
                   save_csv, disk, stdout, stderr, exit_status, calls, failure>>

DropDuplicates ==
    /\ pc = "drop_duplicates"
    /\ df_no_ninja_unique' = drop_duplicates(df_no_ninja, {"IP", "HostName"})
    /\ pc' = "save_dialog"
    /\ UNCHANGED <<pandas_found, file, input_csv, df, ninja_mask, hosts_with_ninja,
                   merged, df_no_ninja, current_user, save_choice,
                   save_csv, disk, stdout, stderr, exit_status, calls, failure>>

\* the fallback of main() when the save dialog returns nothing
save_path(chosen, user) ==
    IF chosen = None THEN DefaultPath(user) ELSE chosen

\* a save dialog whose cancellation ends the run like the open dialog's does
SaveDialog_CancelExits ==
    /\ pc = "save_dialog"
    /\ calls' = Append(calls, "GetSaveFileNameW")
    /\ \E user \in Users, chosen \in ChosenOutputs \cup {None} :
         /\ current_user' = user
         /\ save_choice' = chosen
         /\ save_csv' = save_path(chosen, user)
         /\ IF chosen = None
            THEN sys_exit("No file selected. Exiting.", 0, None)
            ELSE /\ pc' = "to_csv"
                 /\ UNCHANGED <<stdout, exit_status, failure>>
    /\ UNCHANGED <<pandas_found, file, input_csv, df, ninja_mask, hosts_with_ninja,
                   merged, df_no_ninja, df_no_ninja_unique, disk, stderr>>

\* getpass.getuser(), windows_file_dialog_save and the fallback to the default
SaveDialog ==
    /\ pc = "save_dialog"
    /\ calls' = Append(calls, "GetSaveFileNameW")
    /\ \E user \in Users, chosen \in ChosenOutputs \cup {None} :
         /\ current_user' = user
         /\ save_choice' = chosen
         /\ save_csv' = save_path(chosen, user)
    /\ pc' = "to_csv"
    /\ UNCHANGED <<pandas_found, file, input_csv, df, ninja_mask, hosts_with_ninja,
                   merged, df_no_ninja, df_no_ninja_unique, disk, stdout, stderr,
                   exit_status, failure>>

\* the except clause around to_csv
save_failed ==
    sys_exit("Failed to save CSV", 1, "WriteError")

\* to_csv opens the destination for writing, which creates or truncates it
ToCsvOpen ==
    /\ pc = "to_csv"
    /\ calls' = Append(calls, "to_csv")
    /\ \/ /\ disk' = [disk EXCEPT ![save_csv] =
                        [exists |-> TRUE, columns |-> {}, rows |-> <<>>]]
          /\ pc' = "to_csv_header"
          /\ UNCHANGED <<stdout, exit_status, failure>>
       \/ \* open() raised: the destination cannot be written
          /\ save_failed
          /\ UNCHANGED disk
    /\ UNCHANGED <<pandas_found, file, input_csv, df, ninja_mask, hosts_with_ninja,
                   merged, df_no_ninja, df_no_ninja_unique, current_user,
                   save_choice, save_csv, stderr>>

ToCsvHeader ==
    /\ pc = "to_csv_header"
    /\ \/ /\ disk' = [disk EXCEPT ![save_csv].columns = df_no_ninja_unique.columns]
          /\ pc' = "to_csv_rows"
          /\ UNCHANGED <<stdout, exit_status, failure>>
       \/ /\ save_failed
          /\ UNCHANGED disk
    /\ UNCHANGED <<pandas_found, file, input_csv, df, ninja_mask, hosts_with_ninja,
                   merged, df_no_ninja, df_no_ninja_unique, current_user,
                   save_choice, save_csv, stderr, calls>>

\* the rows reach the file one after the other; a write can raise at any row
ToCsvRow ==
    /\ pc = "to_csv_rows"
    /\ Len(disk[save_csv].rows) < Len(df_no_ninja_unique.rows)
    /\ \/ /\ disk' = [disk EXCEPT ![save_csv].rows =
                        Append(@, format_row(df_no_ninja_unique.rows[Len(@) + 1]))]
          /\ UNCHANGED <<pc, stdout, exit_status, failure>>
       \/ /\ save_failed
          /\ UNCHANGED disk
    /\ UNCHANGED <<pandas_found, file, input_csv, df, ninja_mask, hosts_with_ninja,
                   merged, df_no_ninja, df_no_ninja_unique, current_user,
                   save_choice, save_csv, stderr, calls>>

\* to_csv returned: main() prints the destination and returns, and the
\* interpreter ends with status 0
ToCsvDone ==
    /\ pc = "to_csv_rows"
    /\ Len(disk[save_csv].rows) = Len(df_no_ninja_unique.rows)
    /\ sys_exit("Filtered CSV saved to: " \o save_csv, 0, None)
    /\ UNCHANGED <<pandas_found, file, input_csv, df, ninja_mask, hosts_with_ninja,
                   merged, df_no_ninja, df_no_ninja_unique, current_user,
                   save_choice, save_csv, disk, stderr, calls>>

Next ==
    \/ EnsurePandas
    \/ OpenDialog
    \/ ReadCsv
    \/ ComputeNinjaMask
    \/ ComputeHostsWithNinja
    \/ Merge
    \/ SelectLeftOnly
    \/ DropDuplicates
    \/ SaveDialog
    \/ ToCsvOpen
    \/ ToCsvHeader
    \/ ToCsvRow
    \/ ToCsvDone

Spec == Init /\ [][Next]_vars

TypeOK ==
    /\ pc \in {"ensure_pandas", "open_dialog", "read_csv", "ninja_mask",
               "hosts_with_ninja", "merge", "left_only", "drop_duplicates",
               "save_dialog", "to_csv", "to_csv_header", "to_csv_rows", "exited"}
    /\ exit_status \in {0, 1}

-----------------------------------------------------------------------------
(* Vocabulary of the properties *)

T == df.rows
Out == df_no_ninja_unique.rows

\* the filter (steps 4a-4c of main) has produced the output table
OutputReady ==
    \/ pc \in {"save_dialog", "to_csv", "to_csv_header", "to_csv_rows"}
    \/ pc = "exited" /\ save_csv # None

Pair(r) == <<r["IP"], r["HostName"]>>

HasMarker(r) == r["Name"] # NaN /\ contains(r["Name"], Marker)

ExclusionSet(rows) == {Pair(rows[i]) : i \in {j \in 1..Len(rows) : HasMarker(rows[j])}}

PairsOf(rows) == {Pair(rows[i]) : i \in 1..Len(rows)}

Range(seq) == {seq[i] : i \in 1..Len(seq)}

Last(seq) == seq[Len(seq)]

\* positions of the first Record of each pair
FirstPositions(rows) ==
    {i \in 1..Len(rows) : \A j \in 1..(i - 1) : Pair(rows[j]) # Pair(rows[i])}

FirstOfPair(rows, p) ==
    rows[CHOOSE i \in FirstPositions(rows) : Pair(rows[i]) = p]

\* the Records at the positions S, in the order of rows
Restrict(rows, S) ==
    [k \in 1..Cardinality(S) |->
        rows[CHOOSE i \in S : Cardinality({j \in S : j <= i}) = k]]

RECURSIVE IsSubsequence(_, _)
IsSubsequence(a, b) ==
    IF a = <<>> THEN TRUE
    ELSE IF b = <<>> THEN FALSE
    ELSE IF Head(a) = Head(b) THEN IsSubsequence(Tail(a), Tail(b))
    ELSE IsSubsequence(a, Tail(b))

Count(seq, x) == Cardinality({i \in 1..Len(seq) : seq[i] = x})

Written == {p \in Paths : disk[p].exists}

-----------------------------------------------------------------------------
(* Properties *)

\* C1: no Record of the output has an (IP, HostName) pair of the ExclusionSet,
\* the pairs of the Records of T whose Name contains "NinjaRMMAgent".
C1_NoExcludedHostInOutput ==
    OutputReady => \A i \in 1..Len(Out) : Pair(Out[i]) \notin ExclusionSet(T)

C1_Witness ==
    /\ OutputReady
    /\ ExclusionSet(T) # {}
    /\ Out # <<>>
    /\ \E i \in 1..Len(T) : ~HasMarker(T[i]) /\ Pair(T[i]) \in ExclusionSet(T)

C3_OnePerPairFirstWins ==
    OutputReady =>
        /\ \A i, j \in 1..Len(Out) : Pair(Out[i]) = Pair(Out[j]) => i = j
        /\ \A i \in 1..Len(Out) : Out[i] = FirstOfPair(T, Pair(Out[i]))

C3_Witness ==
    /\ OutputReady
    /\ \E i, j \in 1..Len(T) :
         /\ i < j
         /\ Pair(T[i]) = Pair(T[j])
         /\ T[i] # T[j]
         /\ Pair(T[i]) \in PairsOf(Out)

C6_FailuresAreTerminal ==
    /\ ("read_csv" \in Range(calls) /\ ~file.decodable) =>
          /\ pc = "exited" /\ exit_status # 0 /\ failure = "ParseError"
          /\ stdout # <<>> /\ Last(stdout) = "Error reading CSV from " \o input_csv
          /\ calls = <<"GetOpenFileNameW", "read_csv">>
          /\ Written = {}
    /\ ("read_csv" \in Range(calls) /\ file.decodable
          /\ \/ "Name" \notin file.columns /\ pc # "ninja_mask"
             \/ ~(RequiredColumns \subseteq file.columns)
                  /\ pc \notin {"ninja_mask", "hosts_with_ninja"}) =>
          /\ pc = "exited" /\ exit_status # 0 /\ failure # None
          /\ stderr # <<>>
          /\ calls = <<"GetOpenFileNameW", "read_csv">>
          /\ Written = {}
    /\ failure = "WriteError" =>
          /\ pc = "exited" /\ exit_status # 0
          /\ Last(stdout) = "Failed to save CSV"
          /\ calls = <<"GetOpenFileNameW", "read_csv", "GetSaveFileNameW", "to_csv">>
    /\ (pc = "exited" /\ failure # None) => exit_status # 0
    /\ (pc = "exited" /\ failure = None) => exit_status = 0

\* the three failures of the taxonomy, each reached
C6_WitnessSchema ==
    pc = "exited" /\ failure = "KeyError: not in index" /\ "Name" \in df.columns
C6_WitnessWrite == pc = "exited" /\ failure = "WriteError" /\ Written # {}
C6_Witness ==
    /\ pc = "exited" /\ failure = "ParseError"
    /\ "read_csv" \in Range(calls) /\ ~file.decodable

\* C7: a run that ends normally after an input was selected has written exactly
\* one output file, at the path the save dialog returned or, when the dialog
\* returned none, at <Downloads of the current user>\MachinesWithoutNinja.csv.
C7_ExactlyOneFileAtChosenOrDefault ==
    (pc = "exited" /\ exit_status = 0 /\ input_csv # None) =>
        /\ Count(calls, "to_csv") = 1
        /\ Written =
             {IF save_choice = None
              THEN "C:/Users/" \o current_user \o "/Downloads"
                     \o "\\" \o "MachinesWithoutNinja.csv"
              ELSE save_choice}
        /\ \A p \in Written :
             read_csv([decodable |-> TRUE, columns |-> disk[p].columns,
                       rows |-> disk[p].rows]) = df_no_ninja_unique

C7_Witness ==
    /\ pc = "exited" /\ exit_status = 0 /\ input_csv # None
    /\ save_choice = None
    /\ Written # {}
    /\ Out # <<>>

\* C8: when the open dialog returns no path the process ends with status 0 and
\* nothing was read, no save dialog was shown and no file was written.
C8_CancelledInputEndsCleanly ==
    ("GetOpenFileNameW" \in Range(calls) /\ input_csv = None) =>
        /\ pc = "exited" /\ exit_status = 0 /\ failure = None
        /\ calls = <<"GetOpenFileNameW">>
        /\ df = NoFrame
        /\ Written = {}

C8_Witness ==
    /\ "GetOpenFileNameW" \in Range(calls) /\ input_csv = None
    /\ pc = "exited"
    /\ Last(stdout) = "No file selected. Exiting."

\* C9: when the process has ended, every destination either holds the full
\* filtered table or nothing was written to it (it does not exist, or it was
\* opened and holds no data).
C9_FullTableOrNothing ==
    pc = "exited" =>
        \A p \in Paths :
            \/ ~disk[p].exists
            \/ disk[p].columns = {} /\ disk[p].rows = <<>>
            \/ read_csv([decodable |-> TRUE, columns |-> disk[p].columns,
                         rows |-> disk[p].rows]) = df_no_ninja_unique

\* C10: the output is a subsequence of T (same Records, same relative order,
\* no Record more often than in T), and the left merge against the
\* deduplicated hosts_with_ninja yields exactly one row per Record of T.
C10_OutputIsSubsequence ==
    /\ (pc \notin {"ensure_pandas", "open_dialog", "read_csv", "ninja_mask",
                   "hosts_with_ninja", "merge"} /\ merged # NoFrame) =>
          /\ Len(merged.rows) = Len(T)
          /\ \A i \in 1..Len(T) : drop_column(merged.rows[i], "_merge") = T[i]
    /\ OutputReady =>
          /\ IsSubsequence(Out, T)
          /\ \A r \in Range(Out) : Count(Out, r) <= Count(T, r)

C10_Witness ==
    /\ OutputReady
    /\ Out # <<>>
    /\ Len(merged.rows) = Len(T)
    /\ \E i, j \in 1..Len(T) :
         i < j /\ HasMarker(T[i]) /\ HasMarker(T[j]) /\ Pair(T[i]) = Pair(T[j])
====
